---- MODULE Spec2Model ----
(***************************************************************************)
(* mock-server.py: a scripted HTTP test double.  One supervisor (main)     *)
(* thread, one thread per configured MockServer instance and one Logger    *)
(* thread that drains LOG_QUEUE into the log file.                         *)
(*                                                                         *)
(* Strings of the program are modelled as sequences of one-character       *)
(* strings, so that upper(), strip() and "%s %s" are computed.             *)
(***************************************************************************)
EXTENDS Integers, Sequences, FiniteSets, TLC

\* ------------------------------------------------------------- bounds
\* Events from outside the process in one run: client requests, a
\* KeyboardInterrupt, a failing bind, an unexpected socket error.
MaxEvents == 2
\* Messages waiting in LOG_QUEUE while the Logger thread runs.
MaxQueue == 2
\* Longest configured script.
MaxScriptLen == 2

\* ------------------------------------------------------------ strings
GET == <<"G", "E", "T">>
DELETE == <<"D", "E", "L", "E", "T", "E">>
PathA == <<"/", "a">>
PathB == <<"/", "b">>

UpperMap ==
  [c \in {"a","b","c","d","e","f","g","h","i","j","k","l","m","n","o","p",
          "q","r","s","t","u","v","w","x","y","z"} |->
     CASE c = "a" -> "A" [] c = "b" -> "B" [] c = "c" -> "C" [] c = "d" -> "D"
       [] c = "e" -> "E" [] c = "f" -> "F" [] c = "g" -> "G" [] c = "h" -> "H"
       [] c = "i" -> "I" [] c = "j" -> "J" [] c = "k" -> "K" [] c = "l" -> "L"
       [] c = "m" -> "M" [] c = "n" -> "N" [] c = "o" -> "O" [] c = "p" -> "P"
       [] c = "q" -> "Q" [] c = "r" -> "R" [] c = "s" -> "S" [] c = "t" -> "T"
       [] c = "u" -> "U" [] c = "v" -> "V" [] c = "w" -> "W" [] c = "x" -> "X"
       [] c = "y" -> "Y" [] c = "z" -> "Z"]

\* str.upper()
Upper(s) ==
  [k \in 1..Len(s) |-> IF s[k] \in DOMAIN UpperMap THEN UpperMap[s[k]] ELSE s[k]]

Whitespace == {" ", "\t", "\n", "\r"}

RECURSIVE LStrip(_)
LStrip(s) ==
  IF s # <<>> /\ Head(s) \in Whitespace THEN LStrip(Tail(s)) ELSE s

RECURSIVE RStrip(_)
RStrip(s) ==
  IF s # <<>> /\ s[Len(s)] \in Whitespace
  THEN RStrip(SubSeq(s, 1, Len(s) - 1))
  ELSE s

\* str.strip()
Strip(s) == RStrip(LStrip(s))

\* req_str = "%s %s" % (method.upper().strip(), path.strip())
ReqStr(method, path) == Strip(Upper(method)) \o <<" ">> \o Strip(path)

\* cmp_str = "DELETE " + self.name
CmpStr(name) == DELETE \o <<" ">> \o name

\* '\n'.join(lines)
RECURSIVE Join(_)
Join(lines) ==
  IF lines = <<>> THEN <<>>
  ELSE IF Len(lines) = 1 THEN <<lines[1]>>
  ELSE <<lines[1], "\n">> \o Join(Tail(lines))

\* Python's None, and a value that is not None.
None == [none |-> TRUE, val |-> <<>>]
Some(v) == [none |-> FALSE, val |-> v]

\* ------------------------------------------------------ configuration
\* One entry of a server's "requests" list:
\*   {"request": {"req": ...}, "response": {"status": ..., "body": [...]}}
Entry(req, status, body) ==
  [request |-> [req |-> req], response |-> [status |-> status, body |-> body]]

NameOf(n) == IF n = 1 THEN <<"s", "1">> ELSE <<"s", "2">>

KeyA == ReqStr(GET, PathA)
KeyB == ReqStr(GET, PathB)

\* The entries a configured script is drawn from; the last one has the key of
\* the instance's own control command.
EntryPool(n) ==
  { Entry(KeyA, 200, <<"ok">>),
    Entry(KeyB, 404, <<>>),
    Entry(KeyA, 500, <<"no", "way">>),
    Entry(CmpStr(NameOf(n)), 204, <<>>) }

RECURSIVE SeqsUpTo(_, _)
SeqsUpTo(S, n) ==
  IF n = 0 THEN {<<>>}
  ELSE LET shorter == SeqsUpTo(S, n - 1)
       IN  shorter \cup {Append(q, e) : q \in shorter, e \in S}

\* One element of the config file's "servers" list.
ServerConfigs(n) ==
  [name : {NameOf(n)},
   requests : SeqsUpTo(EntryPool(n), MaxScriptLen),
   requests_in_order : BOOLEAN]

\* The requests a client sends to instance n: (command, path) as the HTTP
\* library hands them to do_GET / do_DELETE.
ClientRequests(n) ==
  { [command |-> GET, path |-> PathA],
    [command |-> GET, path |-> PathB],
    [command |-> DELETE, path |-> NameOf(n)] }

EXIT_MSG == [by |-> 0, txt |-> "@@@EXIT@@@", name |-> <<>>, req |-> <<>>]

VARIABLES
  CONF,         \* CONF.server_conf
  SERVERS,      \* the list of MockServer objects
  LOG_QUEUE,    \* the Queue
  LOGFILE,      \* the lines written to the log file
  logger,       \* the Logger thread: "unstarted", "running", "returned"
  mpc,          \* position of the main thread
  ms,           \* the main thread's loop variable ms (index into SERVERS)
  interrupted,  \* a KeyboardInterrupt was delivered
  pc,           \* pc[i]: position of instance i's thread
  cur,          \* cur[i]: the request instance i is handling
  ret,          \* ret[i]: what req_handler returns for it
  closes,       \* closes[i]: calls of socket.close() on i's listening socket
  hist,         \* hist[i]: requests answered so far, with what the client got
  pre,          \* pre[i]: self.requests of i when it took up cur[i]
  nreq,         \* nreq[i]: requests i's thread has taken up
  mark,         \* mark[i]: messages i's thread had logged when it took up cur[i]
  puts,         \* every message ever put on LOG_QUEUE, in order
  budget        \* events from outside that may still happen

vars == <<CONF, SERVERS, LOG_QUEUE, LOGFILE, logger, mpc, ms, interrupted,
          pc, cur, ret, closes, hist, pre, nreq, mark, puts, budget>>

Inst == IF CONF.has_servers THEN 1..Len(CONF.servers) ELSE {}

NoRequest == [command |-> <<>>, path |-> <<>>]
NoReturn == [status |-> 0, headers |-> None, body |-> None]

InitWith(conf, n) ==
  /\ CONF = conf
  /\ SERVERS = <<>>
  /\ LOG_QUEUE = <<>>
  /\ LOGFILE = <<>>
  /\ logger = "unstarted"
  /\ mpc = "create_logger"
  /\ ms = 0
  /\ interrupted = FALSE
  /\ pc = [i \in Inst |-> "new"]
  /\ cur = [i \in Inst |-> NoRequest]
  /\ ret = [i \in Inst |-> NoReturn]
  /\ closes = [i \in Inst |-> 0]
  /\ hist = [i \in Inst |-> <<>>]
  /\ pre = [i \in Inst |-> <<>>]
  /\ nreq = [i \in Inst |-> 0]
  /\ mark = [i \in Inst |-> 0]
  /\ puts = <<>>
  /\ budget = n

\* A config file with one server, or without the "servers" key.
Init ==
  \E conf \in [has_servers : {TRUE}, servers : {<<c>> : c \in ServerConfigs(1)}]
               \cup {[has_servers |-> FALSE, servers |-> <<>>]} :
    InitWith(conf, MaxEvents)

\* ------------------------------------------------------------ logging
\* How many messages thread `by` has put on the queue.
LoggedBy(by) == Cardinality({k \in 1..Len(puts) : puts[k].by = by /\ puts[k] # EXIT_MSG})

\* A put() that jumps the queue.
PutFront(msg) ==
  /\ logger = "running" => Len(LOG_QUEUE) < MaxQueue
  /\ LOG_QUEUE' = <<msg>> \o LOG_QUEUE
  /\ puts' = Append(puts, msg)

\* LOG_QUEUE.put(msg); puts records it.  The Queue is unbounded: the first
\* conjunct only keeps the running Logger within MaxQueue messages of the
\* producers.
Put(msg) ==
  /\ logger = "running" => Len(LOG_QUEUE) < MaxQueue
  /\ LOG_QUEUE' = Append(LOG_QUEUE, msg)
  /\ puts' = Append(puts, msg)

\* log(msg), called by thread `by` (0 is the main thread).  The message is
\* the format string's name plus its arguments; the timestamp prefix is left
\* out.
log(by, txt, name, req) == Put([by |-> by, txt |-> txt, name |-> name, req |-> req])

\* Logger.run: one turn of the loop.
LoggerRun ==
  /\ logger = "running"
  /\ LOG_QUEUE # <<>>
  /\ LOG_QUEUE' = Tail(LOG_QUEUE)
  /\ IF Head(LOG_QUEUE) = EXIT_MSG
     THEN logger' = "returned" /\ UNCHANGED LOGFILE
     ELSE LOGFILE' = Append(LOGFILE, Head(LOG_QUEUE)) /\ UNCHANGED logger
  /\ UNCHANGED <<CONF, SERVERS, mpc, ms, interrupted, pc, cur, ret, closes,
                 hist, pre, nreq, mark, puts, budget>>

\* Logger.stop_it
stop_it == Put(EXIT_MSG)

\* ------------------------------------------------- MockServer: close
\* The four statements of MockServer.close on SERVERS[i], run by thread `by`.
close_log(i, by) == log(by, "Closing socket.", SERVERS[i].name, <<>>)

\* close() that forgets to set the flag.
close_flag_skip(i) == UNCHANGED SERVERS

\* close() that flips the flag instead of setting it.
close_flag_toggle(i) == SERVERS' = [SERVERS EXCEPT ![i].is_closed = ~@]

\* close() with the flag kept in one place for all instances.
close_flag_shared(i) ==
  SERVERS' = [j \in DOMAIN SERVERS |-> [SERVERS[j] EXCEPT !.is_closed = TRUE]]

close_flag(i) == SERVERS' = [SERVERS EXCEPT ![i].is_closed = TRUE]

\* self.server.socket.close(); self.server is None before run() created it.
close_socket(i) ==
  /\ SERVERS[i].server # "None"
  /\ closes' = [closes EXCEPT ![i] = @ + 1]

close_term(i, by) == log(by, "Terminated.", SERVERS[i].name, <<>>)

\* ------------------------------------------- MockServer: req_handler
\* A scan that keeps the last hit instead of breaking at the first.
LastIndex(requests, req_str) ==
  LET hits == {k \in 1..Len(requests) : requests[k].request.req = req_str}
  IN  IF hits = {} THEN -1
      ELSE (CHOOSE k \in hits : \A m \in hits : k >= m) - 1

\* Lines 273-288: which entry of self.requests answers req_str.
\* The index counts from 0, as in the program.
FirstIndex(requests, req_str) ==
  LET hits == {k \in 1..Len(requests) : requests[k].request.req = req_str}
  IN  IF hits = {} THEN -1
      ELSE (CHOOSE k \in hits : \A m \in hits : k <= m) - 1

\* A matcher that scans the whole script in ordered mode too.
MatchAnyEntry(requests, in_order, req_str) ==
  IF FirstIndex(requests, req_str) = -1
  THEN [kind |-> "not_found", req_index |-> -1]
  ELSE [kind |-> "found", req_index |-> FirstIndex(requests, req_str)]

Match(requests, in_order, req_str) ==
  IF in_order
  THEN IF requests = <<>> THEN [kind |-> "IndexError", req_index |-> -1]
       ELSE IF requests[1].request.req # req_str
       THEN [kind |-> "mismatch", req_index |-> -1]
       ELSE [kind |-> "found", req_index |-> 0]
  ELSE IF FirstIndex(requests, req_str) = -1
       THEN [kind |-> "not_found", req_index |-> -1]
       ELSE [kind |-> "found", req_index |-> FirstIndex(requests, req_str)]

\* A pop() without its argument: removes the last entry.
PopLast(requests, req_index) == SubSeq(requests, 1, Len(requests) - 1)

\* self.requests.pop(req_index)
Pop(requests, req_index) ==
  SubSeq(requests, 1, req_index) \o SubSeq(requests, req_index + 2, Len(requests))

\* return_error's result
ErrorReturn(msg) == [status |-> 400, headers |-> None, body |-> Some(<<msg, <<"\n">> >>)]

\* Lines 291-303 and 316: the result for a matched entry (no headers are
\* configured in the modelled scripts, so hdrs is the empty list).
MatchReturn(resp) ==
  [status |-> resp.status, headers |-> Some(<<>>),
   body |-> Some(<<IF resp.body # <<>> THEN Join(resp.body) ELSE <<>> >>)]

\* return_error without its log line.
return_error_nolog(i, msg, req_str) ==
  /\ UNCHANGED <<LOG_QUEUE, puts>>
  /\ ret' = [ret EXCEPT ![i] = ErrorReturn(msg)]

\* return_error, called by instance i's thread for request req_str
return_error(i, msg, req_str) ==
  /\ log(i, "*** Error:", SERVERS[i].name, req_str)
  /\ ret' = [ret EXCEPT ![i] = ErrorReturn(msg)]

\* Consuming the matched entry in unordered mode too.
RemainingAlwaysPop(requests, in_order, req_index) ==
  SubSeq(requests, 1, req_index) \o SubSeq(requests, req_index + 2, Len(requests))

\* Lines 307-311: self.requests after a match
Remaining(requests, in_order, req_index) ==
  IF in_order THEN Pop(requests, req_index) ELSE requests

\* req_handler without the self-close on an emptied script.
AfterMatchNoClose(in_order, left) == "send"

\* Lines 307-316: after a match req_handler goes on to log "All requests
\* processed." and close, or returns
AfterMatch(in_order, left) ==
  IF in_order /\ left = <<>> THEN "all_log" ELSE "send"

\* Line 259
ControlReturn == [status |-> 200, headers |-> None, body |-> None]

\* --------------------------------------------- MockServer: the thread
\* Thread positions of instance i:
\*   "new"       constructed or not yet constructed, not started
\*   "run"       started, before the "Server started" log line
\*   "bind"      before self.server = HTTPServer(...)
\*   "serve"     in serve_forever, no connection accepted
\*   "conn"      in the handler of an accepted connection, waiting for a request
\*   "all_log", "close_log", "close_flag", "close_socket", "close_term"
\*               inside req_handler
\*   "send"      req_handler returned, the response is not sent yet
\*   "returned"  run() returned (the exception was swallowed)
\*   "raised"    run() ended with an exception

\* Lines 191-192
RunLog(i) ==
  /\ pc[i] = "run"
  /\ log(i, "Server started.", SERVERS[i].name, <<>>)
  /\ pc' = [pc EXCEPT ![i] = "bind"]
  /\ UNCHANGED <<CONF, SERVERS, LOGFILE, logger, mpc, ms, interrupted, cur, ret,
                 closes, hist, pre, nreq, mark, budget>>

\* Line 200: HTTPServer(...) binds and listens, or raises outside the try.
Bind(i) ==
  /\ pc[i] = "bind"
  /\ \E ok \in {TRUE} \cup {FALSE : b \in {budget} \ {0}} :
       IF ok
       THEN /\ SERVERS' = [SERVERS EXCEPT ![i].server = "HTTPServer"]
            /\ pc' = [pc EXCEPT ![i] = "serve"]
            /\ UNCHANGED budget
       ELSE /\ pc' = [pc EXCEPT ![i] = "raised"]
            /\ budget' = budget - 1
            /\ UNCHANGED SERVERS
  /\ UNCHANGED <<CONF, LOG_QUEUE, LOGFILE, logger, mpc, ms, interrupted, cur,
                 ret, closes, hist, pre, nreq, mark, puts>>

\* serve_forever accepts a connection: the listening socket must be open.
Accept(i) ==
  /\ pc[i] = "serve"
  /\ closes[i] = 0
  /\ pc' = [pc EXCEPT ![i] = "conn"]
  /\ UNCHANGED <<CONF, SERVERS, LOG_QUEUE, LOGFILE, logger, mpc, ms, interrupted,
                 cur, ret, closes, hist, pre, nreq, mark, puts, budget>>

\* The client ends the persistent connection; the thread is back in
\* serve_forever.
Disconnect(i) ==
  /\ pc[i] = "conn"
  /\ pc' = [pc EXCEPT ![i] = "serve"]
  /\ UNCHANGED <<CONF, SERVERS, LOG_QUEUE, LOGFILE, logger, mpc, ms, interrupted,
                 cur, ret, closes, hist, pre, nreq, mark, puts, budget>>

\* An except clause that re-raises whatever the flag says.
RunExceptAlwaysRaise(i) == pc' = [pc EXCEPT ![i] = "raised"]

\* An except clause whose exception takes every instance thread down.
RunExceptAllThreads(i) ==
  pc' = [j \in DOMAIN pc |->
           IF j = i \/ ~SERVERS[i].is_closed THEN "raised" ELSE pc[j]]

\* Lines 203-212: the except clause of run().
RunExcept(i) ==
  pc' = [pc EXCEPT ![i] = IF SERVERS[i].is_closed THEN "returned" ELSE "raised"]

\* serve_forever selects on a listening socket that was closed.
ClosedSocketError(i) ==
  /\ pc[i] = "serve"
  /\ closes[i] > 0
  /\ RunExcept(i)
  /\ UNCHANGED <<CONF, SERVERS, LOG_QUEUE, LOGFILE, logger, mpc, ms, interrupted,
                 cur, ret, closes, hist, pre, nreq, mark, puts, budget>>

\* serve_forever raises although nobody closed the socket.
UnexpectedError(i) ==
  /\ pc[i] = "serve"
  /\ closes[i] = 0
  /\ budget > 0
  /\ budget' = budget - 1
  /\ RunExcept(i)
  /\ UNCHANGED <<CONF, SERVERS, LOG_QUEUE, LOGFILE, logger, mpc, ms, interrupted,
                 cur, ret, closes, hist, pre, nreq, mark, puts>>

\* What the client got for request req, with the state around it:
\* before/left are self.requests when the request was taken up and when it
\* was answered, logged counts the thread's log() calls since it had logged
\* `since` messages.
HistEntry(i, req, r, fault, before, since) ==
  [req |-> req, status |-> r.status, headers |-> r.headers, body |-> r.body,
   fault |-> fault, before |-> before, left |-> SERVERS[i].requests,
   closed |-> SERVERS[i].is_closed, logged |-> LoggedBy(i) - since]

\* Lines 252-311: req_handler up to its first return, its call of close(), or
\* the "All requests processed" line.
ReqHandler(i, r) ==
  LET req_str == ReqStr(r.command, r.path)
      cmp_str == CmpStr(SERVERS[i].name)
      m == Match(SERVERS[i].requests, SERVERS[i].requests_in_order, req_str)
      resp == SERVERS[i].requests[m.req_index + 1].response
      left == Remaining(SERVERS[i].requests, SERVERS[i].requests_in_order, m.req_index)
  IN
  /\ pc[i] = "conn"
  /\ budget > 0
  /\ budget' = budget - 1
  /\ cur' = [cur EXCEPT ![i] = r]
  /\ mark' = [mark EXCEPT ![i] = LoggedBy(i)]
  /\ pre' = [pre EXCEPT ![i] = SERVERS[i].requests]
  /\ nreq' = [nreq EXCEPT ![i] = @ + 1]
  /\ IF req_str = cmp_str
     THEN /\ ret' = [ret EXCEPT ![i] = ControlReturn]
          /\ pc' = [pc EXCEPT ![i] = "close_log"]
          /\ UNCHANGED <<SERVERS, LOG_QUEUE, puts, hist>>
     ELSE IF m.kind = "IndexError"
     THEN \* self.requests[0] on an empty list: the library's handle_error
          \* drops the connection, the client gets no response.
          /\ hist' = [hist EXCEPT ![i] = Append(@, HistEntry(i, req_str, NoReturn, TRUE,
                                                SERVERS[i].requests, LoggedBy(i)))]
          /\ pc' = [pc EXCEPT ![i] = "serve"]
          /\ UNCHANGED <<SERVERS, LOG_QUEUE, puts, ret>>
     ELSE IF m.kind \in {"mismatch", "not_found"}
     THEN /\ return_error(i, IF m.kind = "mismatch"
                                THEN <<"Not the expected next request!">>
                                ELSE <<"Not an acceptable request!">>, req_str)
          /\ pc' = [pc EXCEPT ![i] = "send"]
          /\ UNCHANGED <<SERVERS, hist>>
     ELSE /\ log(i, "Resp:", SERVERS[i].name, req_str)
          /\ ret' = [ret EXCEPT ![i] = MatchReturn(resp)]
          /\ SERVERS' = [SERVERS EXCEPT ![i].requests = left]
          /\ pc' = [pc EXCEPT ![i] = AfterMatch(SERVERS[i].requests_in_order, left)]
          /\ UNCHANGED hist
  /\ UNCHANGED <<CONF, LOGFILE, logger, mpc, ms, interrupted, closes>>

\* Line 314
AllLog(i) ==
  /\ pc[i] = "all_log"
  /\ log(i, "All requests processed.", SERVERS[i].name, <<>>)
  /\ pc' = [pc EXCEPT ![i] = "close_log"]
  /\ UNCHANGED <<CONF, SERVERS, LOGFILE, logger, mpc, ms, interrupted, cur, ret,
                 closes, hist, pre, nreq, mark, budget>>

\* self.close() called from req_handler (lines 258 and 315), statement by
\* statement.
SelfCloseLog(i) ==
  /\ pc[i] = "close_log"
  /\ close_log(i, i)
  /\ pc' = [pc EXCEPT ![i] = "close_flag"]
  /\ UNCHANGED <<CONF, SERVERS, LOGFILE, logger, mpc, ms, interrupted, cur, ret,
                 closes, hist, pre, nreq, mark, budget>>

SelfCloseFlag(i) ==
  /\ pc[i] = "close_flag"
  /\ close_flag(i)
  /\ pc' = [pc EXCEPT ![i] = "close_socket"]
  /\ UNCHANGED <<CONF, LOG_QUEUE, LOGFILE, logger, mpc, ms, interrupted, cur, ret,
                 closes, hist, pre, nreq, mark, puts, budget>>

SelfCloseSocket(i) ==
  /\ pc[i] = "close_socket"
  /\ close_socket(i)
  /\ pc' = [pc EXCEPT ![i] = "close_term"]
  /\ UNCHANGED <<CONF, SERVERS, LOG_QUEUE, LOGFILE, logger, mpc, ms, interrupted,
                 cur, ret, hist, pre, nreq, mark, puts, budget>>

SelfCloseTerm(i) ==
  /\ pc[i] = "close_term"
  /\ close_term(i, i)
  /\ pc' = [pc EXCEPT ![i] = "send"]
  /\ UNCHANGED <<CONF, SERVERS, LOGFILE, logger, mpc, ms, interrupted, cur, ret,
                 closes, hist, pre, nreq, mark, budget>>

\* Lines 119-143: _process_request sends what req_handler returned.
SendResponse(i) ==
  /\ pc[i] = "send"
  /\ hist' = [hist EXCEPT ![i] =
                Append(@, HistEntry(i, ReqStr(cur[i].command, cur[i].path), ret[i],
                                    FALSE, pre[i], mark[i]))]
  /\ pc' = [pc EXCEPT ![i] = "conn"]
  /\ UNCHANGED <<CONF, SERVERS, LOG_QUEUE, LOGFILE, logger, mpc, ms, interrupted,
                 cur, ret, closes, pre, nreq, mark, puts, budget>>

\* ------------------------------------------------------ the main thread
\* Positions of the main thread:
\*   "create_logger", "create_servers", "start", "wait", "finished_log",
\*   "shutdown_log", "sweep", "close_log", "close_flag", "close_socket",
\*   "close_term", "done_log", "stop_it", "end" (the module's last line ran),
\*   "exit" (sys.exit(1) was called), "raised" (an uncaught exception ended it)

\* create_logger (the log file opens)
create_logger ==
  /\ mpc = "create_logger"
  /\ logger' = "running"
  /\ log(0, "*** Starting log for server mock-server run...", <<>>, <<>>)
  /\ mpc' = "create_servers"
  /\ UNCHANGED <<CONF, SERVERS, LOGFILE, ms, interrupted, pc, cur, ret, closes,
                 hist, pre, nreq, mark, budget>>

\* MockServer.__init__
MockServer(config) ==
  [name |-> config.name,
   requests |-> config.requests,
   requests_in_order |-> config.requests_in_order,
   server |-> "None",
   is_closed |-> FALSE]

\* create_servers_from_config, and the first loop of _create_servers
create_servers_from_config ==
  /\ mpc = "create_servers"
  /\ IF ~CONF.has_servers
     THEN \* exit(msg): log(msg); sys.exit(1)
          /\ log(0, "Missing 'servers' list in server config file.", <<>>, <<>>)
          /\ mpc' = "exit"
          /\ UNCHANGED <<SERVERS, ms>>
     ELSE /\ SERVERS' = [k \in 1..Len(CONF.servers) |-> MockServer(CONF.servers[k])]
          /\ ms' = 1
          /\ mpc' = IF CONF.servers = <<>> THEN "wait" ELSE "start"
          /\ UNCHANGED <<LOG_QUEUE, puts>>
  /\ UNCHANGED <<CONF, LOGFILE, logger, interrupted, pc, cur, ret, closes, hist,
                 pre, nreq, mark, budget>>

\* The second loop of _create_servers: ms.start()
StartThread ==
  /\ mpc = "start"
  /\ pc' = [pc EXCEPT ![ms] = "run"]
  /\ ms' = ms + 1
  /\ mpc' = IF ms = Len(SERVERS) THEN "wait" ELSE "start"
  /\ UNCHANGED <<CONF, SERVERS, LOG_QUEUE, LOGFILE, logger, interrupted, cur, ret,
                 closes, hist, pre, nreq, mark, puts, budget>>

\* Line 396: the loop condition is false; while it is true the thread sleeps.
WaitDone ==
  /\ mpc = "wait"
  /\ ~ \E i \in DOMAIN SERVERS : SERVERS[i].is_closed = FALSE
  /\ mpc' = "finished_log"
  /\ UNCHANGED <<CONF, SERVERS, LOG_QUEUE, LOGFILE, logger, ms, interrupted, pc,
                 cur, ret, closes, hist, pre, nreq, mark, puts, budget>>

\* Line 398
LogFinished ==
  /\ mpc = "finished_log"
  /\ log(0, "All servers have finished...", <<>>, <<>>)
  /\ mpc' = "done_log"
  /\ UNCHANGED <<CONF, SERVERS, LOGFILE, logger, ms, interrupted, pc, cur, ret,
                 closes, hist, pre, nreq, mark, budget>>

\* A KeyboardInterrupt reaches the main thread inside the try block (lines
\* 394-398).
KeyboardInterrupt ==
  /\ mpc \in {"wait", "finished_log"}
  /\ budget > 0
  /\ budget' = budget - 1
  /\ interrupted' = TRUE
  /\ mpc' = "shutdown_log"
  /\ UNCHANGED <<CONF, SERVERS, LOG_QUEUE, LOGFILE, logger, ms, pc, cur, ret,
                 closes, hist, pre, nreq, mark, puts>>

\* Line 400
LogShutdown ==
  /\ mpc = "shutdown_log"
  /\ log(0, "Shutting down...", <<>>, <<>>)
  /\ mpc' = "sweep"
  /\ ms' = 1
  /\ UNCHANGED <<CONF, SERVERS, LOGFILE, logger, interrupted, pc, cur, ret,
                 closes, hist, pre, nreq, mark, budget>>

\* A sweep that passes over every instance without closing it.
SweepNoClose ==
  /\ mpc = "sweep"
  /\ IF ms > Len(SERVERS)
     THEN mpc' = "done_log" /\ UNCHANGED ms
     ELSE ms' = ms + 1 /\ UNCHANGED mpc
  /\ UNCHANGED <<CONF, SERVERS, LOG_QUEUE, LOGFILE, logger, interrupted, pc, cur,
                 ret, closes, hist, pre, nreq, mark, puts, budget>>

\* Lines 405-406: the loop header and the test of ms.is_closed
Sweep ==
  /\ mpc = "sweep"
  /\ IF ms > Len(SERVERS)
     THEN mpc' = "done_log" /\ UNCHANGED ms
     ELSE IF SERVERS[ms].is_closed
     THEN ms' = ms + 1 /\ UNCHANGED mpc
     ELSE mpc' = "close_log" /\ UNCHANGED ms
  /\ UNCHANGED <<CONF, SERVERS, LOG_QUEUE, LOGFILE, logger, interrupted, pc, cur,
                 ret, closes, hist, pre, nreq, mark, puts, budget>>

\* Line 407: ms.close(), statement by statement.
SweepCloseLog ==
  /\ mpc = "close_log"
  /\ close_log(ms, 0)
  /\ mpc' = "close_flag"
  /\ UNCHANGED <<CONF, SERVERS, LOGFILE, logger, ms, interrupted, pc, cur, ret,
                 closes, hist, pre, nreq, mark, budget>>

SweepCloseFlag ==
  /\ mpc = "close_flag"
  /\ close_flag(ms)
  /\ mpc' = "close_socket"
  /\ UNCHANGED <<CONF, LOG_QUEUE, LOGFILE, logger, ms, interrupted, pc, cur, ret,
                 closes, hist, pre, nreq, mark, puts, budget>>

SweepCloseSocket ==
  /\ mpc = "close_socket"
  /\ IF SERVERS[ms].server = "None"
     THEN \* None has no attribute socket: the exception leaves the except
          \* clause and ends the main thread.
          mpc' = "raised" /\ UNCHANGED closes
     ELSE close_socket(ms) /\ mpc' = "close_term"
  /\ UNCHANGED <<CONF, SERVERS, LOG_QUEUE, LOGFILE, logger, ms, interrupted, pc,
                 cur, ret, hist, pre, nreq, mark, puts, budget>>

SweepCloseTerm ==
  /\ mpc = "close_term"
  /\ close_term(ms, 0)
  /\ mpc' = "sweep"
  /\ ms' = ms + 1
  /\ UNCHANGED <<CONF, SERVERS, LOGFILE, logger, interrupted, pc, cur, ret,
                 closes, hist, pre, nreq, mark, budget>>

\* Line 415
LogDone ==
  /\ mpc = "done_log"
  /\ log(0, "Done!", <<>>, <<>>)
  /\ mpc' = "stop_it"
  /\ UNCHANGED <<CONF, SERVERS, LOGFILE, logger, ms, interrupted, pc, cur, ret,
                 closes, hist, pre, nreq, mark, budget>>

\* Line 417
StopLogger ==
  /\ mpc = "stop_it"
  /\ stop_it
  /\ mpc' = "end"
  /\ UNCHANGED <<CONF, SERVERS, LOGFILE, logger, ms, interrupted, pc, cur, ret,
                 closes, hist, pre, nreq, mark, budget>>

\* ------------------------------------------------------ specification
Next ==
  \/ create_logger
  \/ create_servers_from_config
  \/ StartThread
  \/ WaitDone
  \/ LogFinished
  \/ KeyboardInterrupt
  \/ LogShutdown
  \/ Sweep
  \/ SweepCloseLog
  \/ SweepCloseFlag
  \/ SweepCloseSocket
  \/ SweepCloseTerm
  \/ LogDone
  \/ StopLogger
  \/ LoggerRun
  \/ \E i \in DOMAIN SERVERS : RunLog(i)
  \/ \E i \in DOMAIN SERVERS : Bind(i)
  \/ \E i \in DOMAIN SERVERS : Accept(i)
  \/ \E i \in DOMAIN SERVERS : Disconnect(i)
  \/ \E i \in DOMAIN SERVERS : ClosedSocketError(i)
  \/ \E i \in DOMAIN SERVERS : UnexpectedError(i)
  \/ \E i \in DOMAIN SERVERS : \E r \in ClientRequests(i) : ReqHandler(i, r)
  \/ \E i \in DOMAIN SERVERS : AllLog(i)
  \/ \E i \in DOMAIN SERVERS : SelfCloseLog(i)
  \/ \E i \in DOMAIN SERVERS : SelfCloseFlag(i)
  \/ \E i \in DOMAIN SERVERS : SelfCloseSocket(i)
  \/ \E i \in DOMAIN SERVERS : SelfCloseTerm(i)
  \/ \E i \in DOMAIN SERVERS : SendResponse(i)

Spec == Init /\ [][Next]_vars

\* A config file with two servers, each with a script of one entry: the
\* first serves its script in order, the second in any order.
Init2 ==
  InitWith([has_servers |-> TRUE,
            servers |-> << [name |-> NameOf(1),
                            requests |-> <<Entry(KeyA, 200, <<"ok">>)>>,
                            requests_in_order |-> TRUE],
                           [name |-> NameOf(2),
                            requests |-> <<Entry(KeyB, 404, <<>>)>>,
                            requests_in_order |-> FALSE] >>],
           MaxEvents)

Spec2 == Init2 /\ [][Next]_vars

\* ------------------------------------------------------------ properties
Ordered(i) == SERVERS[i].requests_in_order

\* The script instance i was configured with.
Script(i) == CONF.servers[i].requests

\* The key of instance i's control command.
ControlKey(i) == CmpStr(SERVERS[i].name)

\* The key of the request instance i's thread is handling.
CurKey(i) == ReqStr(cur[i].command, cur[i].path)

\* The thread of instance i is inside close(), called from req_handler.
InSelfClose(i) == pc[i] \in {"close_log", "close_flag", "close_socket", "close_term"}

\* The thread of instance i is between two requests.
Idle(i) == pc[i] \in {"serve", "conn"}

\* The response of the first entry of script with key req.
FirstResponse(script, req) == script[FirstIndex(script, req) + 1].response

\* Entry e of hist is a match: it carries the scripted response.
IsMatch(e) == ~e.fault /\ e.headers # None

\* C1: an ordered instance with a non-empty script that gets its script's
\* requests in script order (no control command, no interrupt) answers the
\* j-th request with the status configured for the j-th entry, is open after
\* every request before the last and closed after the last; and in ordered
\* mode the thread runs close() from req_handler only for the control
\* command or for the match that emptied the script.
C1_OrderedScriptInOrder ==
  \A i \in DOMAIN SERVERS :
    LET n == Len(Script(i))
        k == Len(hist[i])
    IN  /\ ( /\ Ordered(i)
             /\ n > 0
             /\ ~interrupted
             /\ k <= n
             /\ \A j \in 1..k : /\ hist[i][j].req = Script(i)[j].request.req
                                /\ hist[i][j].req # ControlKey(i) )
           => /\ \A j \in 1..k : /\ ~hist[i][j].fault
                                 /\ hist[i][j].status = Script(i)[j].response.status
                                 /\ hist[i][j].closed = (j = n)
              /\ (k < n /\ Idle(i) => ~SERVERS[i].is_closed)
              /\ (k = n => SERVERS[i].is_closed)
        /\ ( Ordered(i) /\ (InSelfClose(i) \/ pc[i] = "all_log") )
           => \/ CurKey(i) = ControlKey(i)
              \/ /\ SERVERS[i].requests = <<>>
                 /\ Len(pre[i]) = 1
                 /\ pre[i][1].request.req = CurKey(i)

\* C1 witness: a script of two entries was served in order and the
\* instance is closed.
C1_Witness ==
  \E i \in DOMAIN SERVERS :
    /\ Ordered(i)
    /\ ~interrupted
    /\ Len(Script(i)) = 2
    /\ Len(hist[i]) = 2
    /\ \A j \in 1..2 : /\ hist[i][j].req = Script(i)[j].request.req
                       /\ hist[i][j].req # ControlKey(i)
                       /\ hist[i][j].status = Script(i)[j].response.status
    /\ Script(i)[1] # Script(i)[2]
    /\ SERVERS[i].is_closed

\* The thread of instance i takes up a request in this step.
TakesUp(i) == pc[i] = "conn" /\ nreq'[i] = nreq[i] + 1

NextKey(i) == ReqStr(cur'[i].command, cur'[i].path)

\* In this step an ordered instance with a non-empty script takes up a
\* request that differs from the head entry: it returns 400 at once and
\* changes neither its script nor its flag.
MismatchStep(i) ==
  /\ ret'[i].status = 400
  /\ ret'[i].headers = None
  /\ pc'[i] = "send"
  /\ SERVERS'[i] = SERVERS[i]

\* In this step the head entry matches and exactly it is consumed.
HeadMatchStep(i) ==
  /\ SERVERS'[i].requests = Tail(SERVERS[i].requests)
  /\ ret'[i] = MatchReturn(Head(SERVERS[i].requests).response)

\* C2 as stated: in ordered mode every request that differs from the head
\* entry is a mismatch, every request equal to the head entry matches it, and
\* the script changes only by a match of its head.
C2_AsStated ==
  [][\A i \in DOMAIN SERVERS :
       (TakesUp(i) /\ Ordered(i) /\ SERVERS[i].requests # <<>>)
       => /\ NextKey(i) # Head(SERVERS[i].requests).request.req => MismatchStep(i)
          /\ NextKey(i) = Head(SERVERS[i].requests).request.req => HeadMatchStep(i)
          /\ SERVERS'[i].requests # SERVERS[i].requests
             => NextKey(i) = Head(SERVERS[i].requests).request.req]_vars

\* C2 (amended): the same for every request that is not the instance's
\* control command.
C2_OrderedHeadOnly ==
  [][\A i \in DOMAIN SERVERS :
       (TakesUp(i) /\ Ordered(i) /\ SERVERS[i].requests # <<>>)
       => /\ (NextKey(i) # ControlKey(i)
              /\ NextKey(i) # Head(SERVERS[i].requests).request.req)
             => MismatchStep(i)
          /\ (NextKey(i) # ControlKey(i)
              /\ NextKey(i) = Head(SERVERS[i].requests).request.req)
             => HeadMatchStep(i)
          /\ SERVERS'[i].requests # SERVERS[i].requests
             => /\ NextKey(i) = Head(SERVERS[i].requests).request.req
                /\ HeadMatchStep(i)]_vars

\* C2 witness: the second entry's request came first and got a 400 with the
\* script untouched, then the head entry's request matched.
C2_Witness ==
  \E i \in DOMAIN SERVERS :
    /\ Ordered(i)
    /\ Len(Script(i)) = 2
    /\ Len(hist[i]) = 2
    /\ hist[i][1].req = Script(i)[2].request.req
    /\ hist[i][1].req # Script(i)[1].request.req
    /\ hist[i][1].status = 400
    /\ hist[i][1].before = Script(i)
    /\ hist[i][1].left = Script(i)
    /\ ~hist[i][1].closed
    /\ hist[i][2].req = Script(i)[1].request.req
    /\ hist[i][2].status = Script(i)[1].response.status
    /\ hist[i][2].left = Tail(Script(i))

\* What C3 says of the requests in hist[i] whose key is in keys.
UnorderedServes(i, keys) ==
  /\ SERVERS[i].requests = Script(i)
  /\ \A j \in 1..Len(hist[i]) :
       (hist[i][j].req \in keys)
       => /\ IsMatch(hist[i][j])
          /\ hist[i][j].status = FirstResponse(Script(i), hist[i][j].req).status
          /\ hist[i][j].body = MatchReturn(FirstResponse(Script(i), hist[i][j].req)).body
          /\ hist[i][j].left = Script(i)
  /\ (InSelfClose(i) \/ pc[i] = "all_log") => CurKey(i) = ControlKey(i)

ScriptKeys(i) == {Script(i)[k].request.req : k \in 1..Len(Script(i))}

\* C3 as stated: in unordered mode the script never changes, every scripted
\* key is answered with its configured response every time, and the thread
\* never closes the instance because of a match.
C3_AsStated ==
  \A i \in DOMAIN SERVERS : ~Ordered(i) => UnorderedServes(i, ScriptKeys(i))

\* C3 (amended): the same for every scripted key but the instance's own
\* control key, which is never matched; a key that is scripted twice gets
\* the response of its first entry.
C3_UnorderedNeverConsumes ==
  \A i \in DOMAIN SERVERS :
    ~Ordered(i) => UnorderedServes(i, ScriptKeys(i) \ {ControlKey(i)})

\* C3 witness: the same scripted key was matched twice.
C3_Witness ==
  \E i \in DOMAIN SERVERS :
    /\ ~Ordered(i)
    /\ Len(hist[i]) = 2
    /\ hist[i][1].req = hist[i][2].req
    /\ hist[i][1].req \in ScriptKeys(i) \ {ControlKey(i)}
    /\ IsMatch(hist[i][1]) /\ IsMatch(hist[i][2])
    /\ SERVERS[i].requests = Script(i)
    /\ ~SERVERS[i].is_closed

\* C4: the control command "DELETE <name>" is answered 200 without headers
\* and body in either mode and whatever the script holds; when the response
\* is sent the instance is closed and its script is what it was when the
\* request came in.
C4_ControlCommand ==
  \A i \in DOMAIN SERVERS :
    /\ (pc[i] = "send" /\ CurKey(i) = ControlKey(i))
       => /\ ret[i] = ControlReturn
          /\ SERVERS[i].is_closed
          /\ closes[i] >= 1
          /\ SERVERS[i].requests = pre[i]
    /\ ((InSelfClose(i) \/ pc[i] = "all_log") /\ CurKey(i) = ControlKey(i))
       => /\ SERVERS[i].requests = pre[i]
          /\ pc[i] # "all_log"
    /\ \A j \in 1..Len(hist[i]) :
         hist[i][j].req = ControlKey(i)
         => /\ ~hist[i][j].fault
            /\ hist[i][j].status = 200
            /\ hist[i][j].headers = None
            /\ hist[i][j].body = None
            /\ hist[i][j].closed
            /\ hist[i][j].left = hist[i][j].before

\* C4 witness: the control command was answered by an instance whose
\* script starts with an entry for that very key.
C4_Witness ==
  \E i \in DOMAIN SERVERS :
    /\ Len(Script(i)) = 2
    /\ Script(i)[1].request.req = ControlKey(i)
    /\ Len(hist[i]) = 1
    /\ hist[i][1].req = ControlKey(i)
    /\ hist[i][1].status = 200
    /\ hist[i][1].body = None
    /\ SERVERS[i].requests = Script(i)
    /\ SERVERS[i].is_closed

\* C5: is_closed is False when the instance is constructed and, once True,
\* stays True in every step of every thread.
C5_ClosedMonotonic ==
  [][/\ (SERVERS = <<>> /\ SERVERS' # <<>>)
        => \A i \in DOMAIN SERVERS' : ~SERVERS'[i].is_closed
     /\ \A i \in DOMAIN SERVERS :
          /\ i \in DOMAIN SERVERS'
          /\ SERVERS[i].is_closed => SERVERS'[i].is_closed]_vars

\* C5 witness: close() ran twice on an instance, which is still closed.
C5_Witness ==
  \E i \in DOMAIN SERVERS : closes[i] = 2 /\ SERVERS[i].is_closed

\* C6: the listening socket of every instance is closed at most once.
C6_SocketClosedOnce ==
  \A i \in DOMAIN SERVERS : closes[i] <= 1

\* C7: the socket is only closed with the flag already set; an error that
\* serve_forever raises on a closed socket is swallowed; an error is
\* swallowed exactly if the flag is set when it is raised, and re-raised
\* (ending the thread) otherwise.
C7_FlagBeforeSocket ==
  [][\A i \in DOMAIN SERVERS :
       /\ closes'[i] # closes[i] => SERVERS[i].is_closed
       /\ (pc[i] = "serve" /\ pc'[i] \in {"returned", "raised"})
          => /\ closes[i] > 0 => pc'[i] = "returned"
             /\ pc'[i] = "returned" <=> SERVERS[i].is_closed]_vars

\* C7 witness: a thread returned after the error of a closed socket.
C7_Witness ==
  \E i \in DOMAIN SERVERS :
    pc[i] = "returned" /\ closes[i] > 0 /\ SERVERS[i].is_closed

\* The thread of instance i is closing the instance because a match emptied
\* its script.
Exhausted(i) ==
  /\ Ordered(i)
  /\ CurKey(i) # ControlKey(i)
  /\ SERVERS[i].requests = <<>>
  /\ pre[i] # <<>>

\* C8 as stated: the instance has set its flag or closed its socket for an
\* emptied script only when the response to the final match is sent.
C8_AsStated ==
  \A i \in DOMAIN SERVERS :
    (Exhausted(i) /\ pc[i] \in {"close_socket", "close_term"})
    => Len(hist[i]) = nreq[i]

\* C8 (amended): the self-close for an emptied script runs inside
\* req_handler, before the response to the final match is sent; that
\* response, the one configured for the entry, goes out afterwards, from an
\* instance that is already closed.
C8_CloseBeforeResponse ==
  \A i \in DOMAIN SERVERS :
    /\ (Exhausted(i) /\ (InSelfClose(i) \/ pc[i] = "all_log"))
       => /\ Len(hist[i]) = nreq[i] - 1
          /\ ret[i] = MatchReturn(pre[i][1].response)
    /\ (Exhausted(i) /\ pc[i] = "send" /\ ret[i].headers # None)
       => /\ Len(hist[i]) = nreq[i] - 1
          /\ SERVERS[i].is_closed
          /\ closes[i] >= 1
          /\ ret[i] = MatchReturn(pre[i][1].response)
    /\ \A j \in 1..Len(hist[i]) :
         (Ordered(i) /\ IsMatch(hist[i][j]) /\ hist[i][j].left = <<>>)
         => /\ hist[i][j].closed
            /\ hist[i][j].status = hist[i][j].before[1].response.status

\* C8 witness: the response to the final match was sent by a closed
\* instance.
C8_Witness ==
  \E i \in DOMAIN SERVERS :
    /\ Ordered(i)
    /\ Len(hist[i]) = 2
    /\ IsMatch(hist[i][1]) /\ IsMatch(hist[i][2])
    /\ hist[i][2].left = <<>>
    /\ hist[i][2].closed
    /\ closes[i] = 1

\* C9 as stated: every request the instance answered (a match, a 400, the
\* control command, the final ordered match) put exactly one message on the
\* log queue.
C9_AsStated ==
  \A i \in DOMAIN SERVERS :
    \A j \in 1..Len(hist[i]) : ~hist[i][j].fault => hist[i][j].logged = 1

\* How many messages req_handler logs for the request of hist entry e.
ExpectedLogged(i, e) ==
  IF e.fault THEN 0
  ELSE IF e.req = ControlKey(i) THEN 2
  ELSE IF IsMatch(e) /\ Ordered(i) /\ e.left = <<>> THEN 4
  ELSE 1

\* C9 (amended): a request that is answered without closing the instance
\* (a match that leaves the instance open, or a 400) puts exactly one
\* message on the queue; the control command puts two (close()'s "Closing
\* socket." and "Terminated."), the ordered match that empties the script
\* four (the response line, "All requests processed." and close()'s two),
\* and a request that faults on an empty ordered script none.
C9_LogMessagesPerRequest ==
  \A i \in DOMAIN SERVERS :
    \A j \in 1..Len(hist[i]) : hist[i][j].logged = ExpectedLogged(i, hist[i][j])

\* C9 witness: one instance answered a 400 with one message and then a
\* final match with four.
C9_Witness ==
  \E i \in DOMAIN SERVERS :
    /\ Len(hist[i]) = 2
    /\ hist[i][1].status = 400 /\ hist[i][1].headers = None
    /\ hist[i][1].logged = 1
    /\ IsMatch(hist[i][2]) /\ hist[i][2].left = <<>>
    /\ hist[i][2].logged = 4

\* C10: no message is put on the queue after the sentinel.
C10_NothingAfterSentinel ==
  \A k \in 1..Len(puts) : puts[k] = EXIT_MSG => k = Len(puts)

\* The messages of s up to the first sentinel.
RECURSIVE BeforeSentinel(_)
BeforeSentinel(s) ==
  IF s = <<>> \/ Head(s) = EXIT_MSG THEN <<>>
  ELSE <<Head(s)>> \o BeforeSentinel(Tail(s))

IsPrefix(s, t) == Len(s) <= Len(t) /\ s = SubSeq(t, 1, Len(s))

\* The messages of s that thread `by` logged.
OfProducer(s, by) == SelectSeq(s, LAMBDA m : m.by = by /\ m # EXIT_MSG)

Producers == {0} \cup DOMAIN SERVERS

\* C11: the lines of the log file are the messages put on the queue before
\* the sentinel, in the order of the put() calls, each once: while the
\* Logger runs, the file followed by the queue is what was put; when it has
\* returned, the file is everything put before the sentinel.  So the lines
\* of one thread are in the order in which that thread logged them.
C11_LogFifo ==
  /\ logger = "unstarted" => LOGFILE = <<>> /\ LOG_QUEUE = puts
  /\ logger = "running" => LOGFILE \o LOG_QUEUE = puts
  /\ logger = "returned" => LOGFILE = BeforeSentinel(puts)
  /\ IsPrefix(LOGFILE, BeforeSentinel(puts))
  /\ \A by \in Producers : IsPrefix(OfProducer(LOGFILE, by), OfProducer(puts, by))

\* C11 witness: the Logger has returned after writing lines of the main
\* thread and of two instances, those of the instances interleaved.
C11_Witness ==
  /\ logger = "returned"
  /\ Len(SERVERS) = 2
  /\ \E a, b, c, d \in 1..Len(LOGFILE) :
       /\ a < b /\ b < c
       /\ LOGFILE[a].by = 1 /\ LOGFILE[b].by = 2 /\ LOGFILE[c].by = 1
       /\ LOGFILE[d].by = 0
  /\ LOGFILE = BeforeSentinel(puts)

AllClosed == \A i \in DOMAIN SERVERS : SERVERS[i].is_closed

\* The wait of wait_for_servers_to_finish returned without a
\* KeyboardInterrupt.
WaitReturned == ~interrupted /\ mpc \in {"finished_log", "done_log", "stop_it", "end"}

\* After a KeyboardInterrupt the main thread has left the sweep, by
\* finishing the loop or otherwise.
SweepLeft == interrupted /\ mpc \in {"done_log", "stop_it", "end", "raised"}

\* C12: when the wait has returned without a KeyboardInterrupt every
\* instance is closed; after a KeyboardInterrupt the main thread calls
\* close() on every instance that is still open, so that every instance is
\* closed when it has left the sweep.
C12_WaitAndSweep ==
  /\ WaitReturned => AllClosed
  /\ SweepLeft => AllClosed

\* Some message with text t1 was put on the queue before some message with
\* text t2.
PutBefore(t1, t2) ==
  \E k, l \in 1..Len(puts) : k < l /\ puts[k].txt = t1 /\ puts[l].txt = t2

\* The main thread is past the except clause of wait_for_servers_to_finish
\* after a KeyboardInterrupt.
CancelledPast == interrupted /\ mpc \in {"done_log", "stop_it", "end"}

\* C13 as stated: when the main thread has run to its end after a
\* KeyboardInterrupt, every instance is closed and the line "All servers
\* have finished..." was put on the queue before the sentinel.
C13_AsStated ==
  (interrupted /\ mpc = "end")
  => /\ AllClosed
     /\ PutBefore("All servers have finished...", EXIT_MSG.txt)

\* C13 (amended): after a KeyboardInterrupt the main thread goes on to
\* "Done!" and the sentinel only with every instance closed; the lines put
\* before the sentinel are "Shutting down..." and then "Done!".
C13_CancelledExit ==
  /\ CancelledPast => AllClosed
  /\ (interrupted /\ \E k \in 1..Len(puts) : puts[k] = EXIT_MSG)
     => /\ mpc = "end"
        /\ AllClosed
  /\ (interrupted /\ mpc = "end")
     => /\ PutBefore("Shutting down...", "Done!")
        /\ PutBefore("Done!", EXIT_MSG.txt)

\* C13 witness: after a KeyboardInterrupt the sweep closed both instances
\* and the main thread ran to its end.
C13_Witness ==
  /\ interrupted
  /\ mpc = "end"
  /\ Len(SERVERS) = 2
  /\ \A i \in DOMAIN SERVERS :
       /\ SERVERS[i].is_closed
       /\ \E k \in 1..Len(puts) :
            puts[k].by = 0 /\ puts[k].txt = "Terminated." /\ puts[k].name = SERVERS[i].name

\* HTTPServer(...) raised in the thread of instance i: run() ended with
\* self.server still None.
BindFailed(i) == pc[i] = "raised" /\ SERVERS[i].server = "None"

\* C14: once an instance has failed to bind its address, the process does
\* not go on with the other instances: no instance accepts a connection or
\* takes up a request any more.
C14_BindFailureFatal ==
  [][(\E i \in DOMAIN SERVERS : BindFailed(i))
     => \A j \in DOMAIN SERVERS :
          /\ ~(pc[j] = "serve" /\ pc'[j] = "conn")
          /\ nreq'[j] = nreq[j]]_vars

\* run() of instance i ended with an exception out of serve_forever.
Faulted(i) == pc[i] = "raised" /\ SERVERS[i].server # "None"

\* In this step serve_forever of instance i raises with the flag unset.
FaultStep(i) == pc[i] = "serve" /\ pc'[i] = "raised"

\* What req_handler of instance j returns for key req, as far as it is
\* decided when the request is taken up.
ExpectedReturn(j, req) ==
  LET m == Match(SERVERS[j].requests, SERVERS[j].requests_in_order, req)
  IN  IF req = ControlKey(j) THEN ControlReturn
      ELSE IF m.kind = "found"
      THEN MatchReturn(SERVERS[j].requests[m.req_index + 1].response)
      ELSE ErrorReturn(IF m.kind = "mismatch"
                       THEN <<"Not the expected next request!">>
                       ELSE <<"Not an acceptable request!">>)

\* C15: when serve_forever of an instance raises with the flag unset, only
\* that instance's thread ends: the step changes no other thread's position,
\* no instance's object, no socket and not the main thread; and afterwards
\* every other instance still takes up requests and answers them from its
\* own script.
C15_FaultIsolation ==
  [][\A i \in DOMAIN SERVERS :
       /\ FaultStep(i)
          => /\ ~SERVERS[i].is_closed
             /\ SERVERS' = SERVERS
             /\ closes' = closes
             /\ mpc' = mpc /\ logger' = logger
             /\ \A j \in DOMAIN SERVERS \ {i} : pc'[j] = pc[j] /\ hist'[j] = hist[j]
       /\ \A j \in DOMAIN SERVERS \ {i} :
            (Faulted(i) /\ TakesUp(j) /\ SERVERS[j].requests # <<>>)
            => /\ ret'[j] = ExpectedReturn(j, NextKey(j))
               /\ pc'[j] # "serve"
               /\ SERVERS'[i] = SERVERS[i] /\ pc'[i] = pc[i]]_vars

\* C15 witness: the thread of one instance ended with the exception while
\* the other instance, still open, has answered a request from its script
\* and the main thread still waits.
C15_Witness ==
  \E i, j \in DOMAIN SERVERS :
    /\ i # j
    /\ Faulted(i) /\ ~SERVERS[i].is_closed /\ closes[i] = 0
    /\ Len(hist[j]) = 1 /\ IsMatch(hist[j][1])
    /\ hist[j][1].status = Script(j)[1].response.status
    /\ pc[j] = "conn"
    /\ mpc = "wait"
    /\ logger = "running"

\* C16: when the main thread has called sys.exit(1) for a config without
\* the 'servers' key, the error is logged and the process can end: the
\* Logger thread has returned or the sentinel that makes it return is on
\* its way.
C16_MissingServersExits ==
  mpc = "exit"
  => /\ \E k \in 1..Len(puts) :
          puts[k].txt = "Missing 'servers' list in server config file."
     /\ \/ logger = "returned"
        \/ \E k \in 1..Len(LOG_QUEUE) : LOG_QUEUE[k] = EXIT_MSG

\* This step is one of instance i's own thread.
ThreadStep(i) == pc[i] # "new" /\ pc'[i] # pc[i]

\* C17: a step of one instance's thread (taking up a request, answering
\* it, closing itself) changes nothing of any other instance: not its
\* object (script, flag, server), its socket, its thread or what it is
\* handling; apart from its own state the step changes only the log queue.
\* The script of an instance changes only when its own thread takes up a
\* request.
C17_Frame ==
  [][\A i \in DOMAIN SERVERS :
       /\ ThreadStep(i)
          => /\ \A j \in DOMAIN SERVERS \ {i} :
                  /\ SERVERS'[j] = SERVERS[j]
                  /\ closes'[j] = closes[j]
                  /\ pc'[j] = pc[j]
                  /\ cur'[j] = cur[j] /\ ret'[j] = ret[j] /\ hist'[j] = hist[j]
             /\ CONF' = CONF /\ LOGFILE' = LOGFILE /\ logger' = logger
             /\ mpc' = mpc /\ ms' = ms /\ interrupted' = interrupted
       /\ (i \in DOMAIN SERVERS' /\ SERVERS'[i].requests # SERVERS[i].requests)
          => TakesUp(i)
       /\ i \in DOMAIN SERVERS']_vars

\* C17 witness: the first instance emptied its script and closed itself,
\* the second answered a request; the second is open with its whole script.
C17_Witness ==
  /\ Len(SERVERS) = 2
  /\ Len(hist[1]) = 1 /\ IsMatch(hist[1][1]) /\ hist[1][1].left = <<>>
  /\ SERVERS[1].is_closed /\ closes[1] = 1 /\ SERVERS[1].requests = <<>>
  /\ Len(hist[2]) = 1 /\ IsMatch(hist[2][1])
  /\ ~SERVERS[2].is_closed /\ closes[2] = 0
  /\ SERVERS[2].requests = Script(2)

\* The reference matcher: the index (from 0) of the entry that answers key,
\* or -1 for a failure.
RefOrdered(script, key) ==
  IF script # <<>> /\ script[1].request.req = key THEN 0 ELSE -1

RefUnordered(script, key) ==
  IF \A k \in 1..Len(script) : script[k].request.req # key THEN -1
  ELSE (CHOOSE k \in 1..Len(script) :
          /\ script[k].request.req = key
          /\ \A m \in 1..(k - 1) : script[m].request.req # key) - 1

RefMatch(script, in_order, key) ==
  IF in_order THEN RefOrdered(script, key) ELSE RefUnordered(script, key)

\* C18: whenever req_handler gets as far as the matcher (the request is not
\* the control command), the matcher succeeds exactly if the reference
\* does, and with the reference's index: 0 for the head entry in ordered
\* mode, the smallest index with the key in unordered mode; the response
\* that req_handler returns is the one of that entry, and a failure is a 400
\* (for an empty ordered script, where there is no head entry, the matcher
\* does not succeed either: it raises).
C18_MatcherAgrees ==
  [][\A i \in DOMAIN SERVERS :
       (TakesUp(i) /\ NextKey(i) # ControlKey(i))
       => LET script == SERVERS[i].requests
              m == Match(script, Ordered(i), NextKey(i))
              ref == RefMatch(script, Ordered(i), NextKey(i))
          IN  /\ m.kind = "found" <=> ref # -1
              /\ m.kind = "found" => m.req_index = ref
              /\ (Ordered(i) /\ m.kind = "found") => m.req_index = 0
              /\ ref # -1 => ret'[i] = MatchReturn(script[ref + 1].response)
              /\ ref = -1 => \/ script = <<>> /\ Ordered(i) /\ m.kind = "IndexError"
                             \/ ret'[i].status = 400 /\ ret'[i].headers = None]_vars

\* C18 witness: an unordered script with the same key twice, with two
\* different responses, answered a request for that key with the first.
C18_Witness ==
  \E i \in DOMAIN SERVERS :
    /\ ~Ordered(i)
    /\ Len(Script(i)) = 2
    /\ Script(i)[1].request.req = Script(i)[2].request.req
    /\ Script(i)[1].response.status # Script(i)[2].response.status
    /\ Len(hist[i]) >= 1
    /\ hist[i][1].req = Script(i)[1].request.req
    /\ hist[i][1].status = Script(i)[1].response.status
    /\ hist[i][1].body = MatchReturn(Script(i)[1].response).body

\* C19: in ordered mode self.requests[0] is never evaluated on an empty
\* list: no request ended in the fault of an empty script.
C19_HeadAlwaysExists ==
  \A i \in DOMAIN SERVERS :
    \A j \in 1..Len(hist[i]) :
      ~(hist[i][j].fault /\ Ordered(i) /\ hist[i][j].before = <<>>)

\* C20: the sweep after a KeyboardInterrupt calls socket.close() only on an
\* instance whose run() has created the server, it is not cut short by an
\* exception, and no instance binds its address after it was marked closed.
C20_SweepSafe ==
  [][/\ (mpc = "close_socket" /\ mpc' # mpc) => SERVERS[ms].server # "None"
     /\ mpc' # "raised"
     /\ \A i \in DOMAIN SERVERS :
          SERVERS[i].is_closed => ~(pc[i] = "bind" /\ pc'[i] = "serve")]_vars
====
